---- MODULE Spec2Model ----
(***************************************************************************)
(* Donet: the DC schema compiler core (libdonet).                          *)
(*                                                                         *)
(*   Spec        read_dc / semantic_analyzer over a DC source              *)
(*               (libdonet/src/parser/semantics.rs)                        *)
(*   SpecDClass  the DClass object graph (libdonet/src/dcfile.rs)          *)
(*   SpecType    DCTypeDefinition (libdonet/src/dctype.rs)                 *)
(*   SpecInterval, SpecLogger  the event logger                            *)
(*               (donet-event-logger/src/lib.rs)                           *)
(***************************************************************************)
EXTENDS Integers, Sequences, FiniteSets, TLC

VARIABLES
    \* ---- read_dc / semantic_analyzer ----
    dc_source,      \* the DC source: per file, its declarations in order
    syntax_trees,   \* data.syntax_trees: per file, its declaration nodes
    ast_i,          \* position of the outer loop (current AST)
    decl_i,         \* position of the inner loop (current declaration)
    dc_file,        \* dcfile::intermediate::DCFile being assembled
    result,         \* what semantic_analyzer returned
    \* ---- DClass ----
    heap,           \* the Arc<Mutex<DClass>> allocations, by address
    new_args,       \* per class, the name and id handed to DClass::new
    set_parent_args,\* per class, the parents handed to set_parent so far
    handle,         \* the Arc handle a caller got back from get_parent
    \* ---- DCTypeDefinition ----
    type_def,       \* the DCTypeDefinition object
    type_last,      \* the last DCTypeDefinition call and its result
    hashgen,        \* the DCHashGenerator last handed to generate_hash
    \* ---- EventLogger ----
    conf_rotate_interval, \* conf.rotate_interval, a string of characters
    lg_pc,          \* where the service is: create, main's steps, or ended
    rotation_interval, \* EventLogger.rotation_interval
    next_rotation,  \* EventLogger.next_rotation
    log_file,       \* EventLogger.log_file: the Option<File>
    files,          \* the log files created on disk, in order of creation
    now,            \* the system clock (Unix time, seconds)
    unix_time,      \* main's local unix_time, read for the current packet
    checked,        \* next_rotation as main's loop compared it (line 143)
    dgi,            \* main's local dgi
    packets         \* the packets recv_from returned, and what became of them

vars == <<dc_source, syntax_trees, ast_i, decl_i, dc_file, result,
          heap, new_args, set_parent_args, handle, type_def, type_last,
          hashgen, conf_rotate_interval, lg_pc, rotation_interval,
          next_rotation, log_file, files, now, unix_time, checked, dgi,
          packets>>

analyzer_vars == <<dc_source, syntax_trees, ast_i, decl_i, dc_file, result>>
dclass_vars == <<heap, new_args, set_parent_args, handle>>
type_vars == <<type_def, type_last, hashgen>>
logger_vars == <<conf_rotate_interval, lg_pc, rotation_interval,
                 next_rotation, log_file, files, now, unix_time, checked,
                 dgi, packets>>

\* ---------------------------------------------------------------- bounds
\* Total number of declarations in the DC source.
MaxDecls == 3
\* Number of source files (one AST each).
MaxFiles == 2
\* Number of DClass objects allocated.
MaxObjs == 2
\* Total number of set_parent calls.
MaxSetParent == 3
\* Length of conf.rotate_interval, in characters.
MaxIntervalLen == 4
\* Number of packets recv_from returns.
MaxPackets == 2
\* Seconds the clock is followed past a rotation that is due.
MaxLate == 1

\* Option<T>
None == [some |-> FALSE]
Some(v) == [some |-> TRUE, v |-> v]

\* ------------------------------------------------------------ DC source
\* The declarations a DC source file can hold.  An import names a module
\* and a symbol expression: a base name and its view suffixes.
ImportStmts ==
    { [decl |-> "import", module |-> "views", base |-> "*", suffixes |-> <<>>],
      [decl |-> "import", module |-> "views", base |-> "DistributedDonut",
       suffixes |-> <<>>],
      [decl |-> "import", module |-> "views", base |-> "Class",
       suffixes |-> <<"AI", "OV">>] }

TypedefStmts ==
    { [decl |-> "typedef", dtype |-> "TUInt32", alias |-> "ChannelId"] }

DClassStmts ==
    { [decl |-> "dclass", name |-> "Avatar", parents |-> <<>>,
       fields |-> <<"name", "hp">>],
      [decl |-> "dclass", name |-> "Pet", parents |-> <<"Avatar">>,
       fields |-> <<"owner">>] }

OtherStmts ==
    { [decl |-> "keyword", name |-> "p2p"],
      [decl |-> "struct", name |-> "Vec3", fields |-> <<"x", "y", "z">>],
      [decl |-> "deprecated"] }

Stmts == ImportStmts \cup TypedefStmts \cup DClassStmts \cup OtherStmts

\* Sequences over S of length at most n.
SeqsUpTo(S, n) == UNION { [1..k -> S] : k \in 0..n }

RECURSIVE SumSeq(_)
SumSeq(s) == IF s = <<>> THEN 0 ELSE Head(s) + SumSeq(Tail(s))

RECURSIVE Flatten(_)
Flatten(ss) == IF ss = <<>> THEN <<>> ELSE Head(ss) \o Flatten(Tail(ss))

\* The files of a source: flat cut into consecutive files of the given
\* lengths.
RECURSIVE Split(_, _)
Split(flat, lens) ==
    IF lens = <<>> THEN <<>>
    ELSE <<SubSeq(flat, 1, Head(lens))>>
         \o Split(SubSeq(flat, Head(lens) + 1, Len(flat)), Tail(lens))

\* The file lengths of the DC sources considered: at most MaxFiles files (a
\* file may be empty) holding at most MaxDecls declarations together.
FileLengths ==
    { lens \in SeqsUpTo(0..MaxDecls, MaxFiles) : SumSeq(lens) <= MaxDecls }

\* --------------------------------------------------------------- parser
\* Symbol expansion of an import: the base name, then the base name with
\* each view suffix appended, in source order.
ExpandSymbols(base, suffixes) ==
    <<base>> \o [i \in 1..Len(suffixes) |-> base \o suffixes[i]]

\* The declaration node the parser produces for one declaration.
ParseDecl(d) ==
    CASE d.decl = "import" ->
           [kind |-> "PythonImport",
            import |-> [module |-> d.module,
                        symbols |-> ExpandSymbols(d.base, d.suffixes)]]
      [] d.decl = "keyword" -> [kind |-> "KeywordType", name |-> d.name]
      [] d.decl = "struct" ->
           [kind |-> "StructType", name |-> d.name, fields |-> d.fields]
      [] d.decl = "dclass" ->
           [kind |-> "DClassType", name |-> d.name, parents |-> d.parents,
            fields |-> d.fields]
      [] d.decl = "typedef" ->
           [kind |-> "TypedefType", dtype |-> d.dtype, alias |-> d.alias]
      [] OTHER -> [kind |-> "Ignore"]

\* One AST per source file.
ParseFile(f) == [type_declarations |-> [i \in 1..Len(f) |-> ParseDecl(f[i])]]

Parse(src) == [i \in 1..Len(src) |-> ParseFile(src[i])]

\* ---------------------------------------------------------- type system
\* DCTypeEnum: every variant with its #[repr(u8)] tag.
DCTypeTag ==
    [TInt8 |-> 0, TInt16 |-> 1, TInt32 |-> 2, TInt64 |-> 3,
     TUInt8 |-> 4, TChar |-> 8, TUInt16 |-> 5, TUInt32 |-> 6, TUInt64 |-> 7,
     TFloat32 |-> 9, TFloat64 |-> 10,
     TString |-> 11, TVarString |-> 12,
     TBlob |-> 13, TVarBlob |-> 14,
     TBlob32 |-> 19, TVarBlob32 |-> 20,
     TArray |-> 15, TVarArray |-> 16,
     TStruct |-> 17, TMethod |-> 18,
     TInvalid |-> 21]

DCTypeEnum == DOMAIN DCTypeTag

\* The kinds whose wire size is variable (Display: "var string", "var blob",
\* "var blob32", "var array").
VariableLengthKinds == {"TVarString", "TVarBlob", "TVarBlob32", "TVarArray"}

\* impl Default for DCTypeDefinition
DCTypeDefinitionDefault ==
    [alias |-> None, data_type |-> "TInvalid", size |-> 0]

\* DCTypeDefinition::new
DCTypeDefinition_new == DCTypeDefinitionDefault

\* DCTypeDefinition::new_with_type
new_with_type(dt) == [alias |-> None, data_type |-> dt, size |-> 0]

\* DCTypeDefinition::set_alias
set_alias(td, alias) == [td EXCEPT !.alias = Some(alias)]

\* DCTypeDefinition::is_variable_length
is_variable_length(td) == td.size = 0

\* DCTypeDefinition::get_size
get_size(td) == td.size

\* DCTypeDefinition::get_dc_type
get_dc_type(td) == td.data_type

\* DCTypeDefinition::has_alias
has_alias(td) == td.alias.some

\* DCHashGenerator::add_int / add_string: the generator is the ordered
\* sequence of the values fed to it.
add_int(hg, n) == Append(hg, [int |-> n])
add_string(hg, str) == Append(hg, [string |-> str])

\* generate_hash feeding the tag alone, whether or not an alias is set.
generate_hash_TagOnly(td, hg) == add_int(hg, DCTypeTag[td.data_type])

\* DCTypeDefinition::generate_hash
generate_hash(td, hg) ==
    LET fed == add_int(hg, DCTypeTag[td.data_type])
    IN  IF td.alias.some THEN add_string(fed, td.alias.v) ELSE fed

\* ---------------------------------------------------- schema aggregate
\* dcfile::intermediate::DCFile::default()
IntermediateDefault ==
    [imports |-> <<>>, typedefs |-> <<>>, structs |-> <<>>, classes |-> <<>>]

\* dcfile::intermediate::DCFile::add_python_import
add_python_import(dcf, import) ==
    [dcf EXCEPT !.imports = Append(@, import)]

\* The whole-schema hash: every type definition's contribution, in order.
\* (DClass::generate_hash is todo!(): classes contribute nothing yet.)
RECURSIVE HashTypedefs(_, _)
HashTypedefs(tds, hg) ==
    IF tds = <<>> THEN hg
    ELSE HashTypedefs(Tail(tds), generate_hash(Head(tds), hg))

\* From<intermediate::DCFile> for DCFile: the published, immutable form.
IntoDCFile(dcf) ==
    [imports |-> dcf.imports, typedefs |-> dcf.typedefs,
     structs |-> dcf.structs, classes |-> dcf.classes,
     hash |-> HashTypedefs(dcf.typedefs, <<>>)]

get_num_imports(dcf) == Len(dcf.imports)
get_python_import(dcf, index) == dcf.imports[index + 1]

\* ----------------------------------------------------- semantic_analyzer
NoResult == [kind |-> "None"]
Ok(v) == [kind |-> "Ok", value |-> v]

Running == result = NoResult
InAst == Running /\ ast_i <= Len(syntax_trees)
CurAst == syntax_trees[ast_i].type_declarations
InDecl == InAst /\ decl_i <= Len(CurAst)
CurDecl == CurAst[decl_i]

\* The match arm for a python import, with its body left empty like the
\* arms after it.
ArmPythonImport_Empty(dcf, node) == dcf

\* The match arm for a python import, recording the base symbol alone.
ArmPythonImport_BaseOnly(dcf, node) ==
    add_python_import(dcf, [node.import EXCEPT !.symbols = <<Head(@)>>])

\* The Ignore arm materializing a placeholder type definition.
ArmIgnore_Materialized(dcf, node) ==
    [dcf EXCEPT !.typedefs = Append(@, DCTypeDefinitionDefault)]

\* The effect of each match arm on the intermediate DC file.
ArmPythonImport(dcf, node) == add_python_import(dcf, node.import)
ArmKeywordType(dcf, node) == dcf
ArmStructType(dcf, node) == dcf
ArmDClassType(dcf, node) == dcf
ArmTypedefType(dcf, node) == dcf
ArmIgnore(dcf, node) == dcf

\* match type_declaration { ... }
Dispatch(dcf, node) ==
    CASE node.kind = "PythonImport" -> ArmPythonImport(dcf, node)
      [] node.kind = "KeywordType" -> ArmKeywordType(dcf, node)
      [] node.kind = "StructType" -> ArmStructType(dcf, node)
      [] node.kind = "DClassType" -> ArmDClassType(dcf, node)
      [] node.kind = "TypedefType" -> ArmTypedefType(dcf, node)
      [] node.kind = "Ignore" -> ArmIgnore(dcf, node)

\* One iteration of the inner loop: the match, then the next declaration.
VisitDecl ==
    /\ dc_file' = Dispatch(dc_file, CurDecl)
    /\ decl_i' = decl_i + 1
    /\ UNCHANGED <<dc_source, syntax_trees, ast_i, result>>
    /\ UNCHANGED <<dclass_vars, type_vars, logger_vars>>

\* The iteration, by the arm the declaration takes.
VisitPythonImport ==
    /\ InDecl
    /\ CurDecl.kind = "PythonImport"
    /\ VisitDecl

VisitKeywordType ==
    /\ InDecl
    /\ CurDecl.kind = "KeywordType"
    /\ VisitDecl

VisitStructType ==
    /\ InDecl
    /\ CurDecl.kind = "StructType"
    /\ VisitDecl

VisitDClassType ==
    /\ InDecl
    /\ CurDecl.kind = "DClassType"
    /\ VisitDecl

VisitTypedefType ==
    /\ InDecl
    /\ CurDecl.kind = "TypedefType"
    /\ VisitDecl

VisitIgnore ==
    /\ InDecl
    /\ CurDecl.kind = "Ignore"
    /\ VisitDecl

\* The inner loop is exhausted: go on with the next AST.
NextAst ==
    /\ InAst
    /\ decl_i > Len(CurAst)
    /\ ast_i' = ast_i + 1
    /\ decl_i' = 1
    /\ UNCHANGED <<dc_source, syntax_trees, dc_file, result>>
    /\ UNCHANGED <<dclass_vars, type_vars, logger_vars>>

\* Ok(dc_file.into())
Publish ==
    /\ Running
    /\ ast_i > Len(syntax_trees)
    /\ result' = Ok(IntoDCFile(dc_file))
    /\ UNCHANGED <<dc_source, syntax_trees, ast_i, decl_i, dc_file>>
    /\ UNCHANGED <<dclass_vars, type_vars, logger_vars>>

Published == result.kind = "Ok"

\* semantic_analyzer as a function of its input: both loops run to the end.
RECURSIVE AnalyzeDecls(_, _)
AnalyzeDecls(decls, dcf) ==
    IF decls = <<>> THEN dcf
    ELSE AnalyzeDecls(Tail(decls), Dispatch(dcf, Head(decls)))

RECURSIVE AnalyzeTrees(_, _)
AnalyzeTrees(trees, dcf) ==
    IF trees = <<>> THEN dcf
    ELSE AnalyzeTrees(Tail(trees),
                      AnalyzeDecls(Head(trees).type_declarations, dcf))

semantic_analyzer(trees) ==
    Ok(IntoDCFile(AnalyzeTrees(trees, IntermediateDefault)))

\* Initial state of the analyzer: a DC source was parsed and
\* semantic_analyzer starts with a default intermediate DC file.
AnalyzerInit ==
    /\ \E lens \in FileLengths :
         \E flat \in [1..SumSeq(lens) -> Stmts] :
            dc_source = Split(flat, lens)
    /\ syntax_trees = Parse(dc_source)
    /\ ast_i = 1
    /\ decl_i = 1
    /\ dc_file = IntermediateDefault
    /\ result = NoResult

\* The analyzer is not run.
AnalyzerIdle ==
    /\ dc_source = <<>>
    /\ syntax_trees = <<>>
    /\ ast_i = 1
    /\ decl_i = 1
    /\ dc_file = IntermediateDefault
    /\ result = NoResult

\* ------------------------------------------- claims on semantic_analyzer
IsPythonImport(node) == node.kind = "PythonImport"
IsDClassType(node) == node.kind = "DClassType"
IsTypedefType(node) == node.kind = "TypedefType"
NotIgnore(node) == node.kind # "Ignore"
IsImportStmt(d) == d.decl = "import"

\* Every declaration node of the input, file by file, node by node.
AllDecls ==
    Flatten([i \in 1..Len(syntax_trees) |-> syntax_trees[i].type_declarations])

\* The declaration nodes the loops have gone through so far.
VisitedDecls ==
    Flatten([i \in 1..Len(syntax_trees) |->
               IF i < ast_i THEN syntax_trees[i].type_declarations
               ELSE IF i = ast_i
                    THEN SubSeq(syntax_trees[i].type_declarations,
                                1, decl_i - 1)
                    ELSE <<>>])

\* The imports carried by the python-import nodes of decls, in order.
ImportsOf(decls) ==
    LET nodes == SelectSeq(decls, IsPythonImport)
    IN  [k \in 1..Len(nodes) |-> nodes[k].import]

\* C1: the import list of the published DC file is exactly the subsequence
\* of python-import nodes of the input, in source order (file by file, node
\* by node), one entry per node and each entry the node's import unchanged;
\* while the analyzer runs, the intermediate import list is that
\* subsequence of the nodes gone through so far.
C1_ImportsInSourceOrder ==
    /\ dc_file.imports = ImportsOf(VisitedDecls)
    /\ Published =>
         LET want == ImportsOf(AllDecls)
         IN  /\ get_num_imports(result.value) = Len(want)
             /\ \A i \in 0..(Len(want) - 1) :
                    get_python_import(result.value, i) = want[i + 1]

\* Two different imports in two files, with another declaration in between.
C1_Witness ==
    /\ Published
    /\ Len(syntax_trees) = 2
    /\ Len(AllDecls) = 3
    /\ IsPythonImport(AllDecls[1])
    /\ ~IsPythonImport(AllDecls[2])
    /\ IsPythonImport(AllDecls[3])
    /\ AllDecls[1] # AllDecls[3]
    /\ get_num_imports(result.value) = 2

\* The import statements of the source, in order.
ImportStmtsOf(src) == SelectSeq(Flatten(src), IsImportStmt)

\* C2: for every import statement of the source, the published import
\* records the imported module, and its symbols are the base name followed
\* by the base name with each suffix appended, in order (so `*` and a bare
\* name yield that single symbol); the three imports from `views` yield
\* [*], [DistributedDonut] and [Class, ClassAI, ClassOV].
C2_ImportExpansion ==
    Published =>
      LET stmts == ImportStmtsOf(dc_source)
      IN  /\ get_num_imports(result.value) = Len(stmts)
          /\ \A k \in 1..Len(stmts) :
               LET d == stmts[k]
                   imp == get_python_import(result.value, k - 1)
               IN  /\ imp.module = d.module
                   /\ Len(imp.symbols) = Len(d.suffixes) + 1
                   /\ imp.symbols[1] = d.base
                   /\ \A j \in 1..Len(d.suffixes) :
                        imp.symbols[j + 1] = d.base \o d.suffixes[j]
                   /\ d.base = "*" => imp.symbols = <<"*">>
                   /\ d.base = "DistributedDonut" =>
                        imp.symbols = <<"DistributedDonut">>
                   /\ (d.base = "Class" /\ d.suffixes = <<"AI", "OV">>) =>
                        imp.symbols = <<"Class", "ClassAI", "ClassOV">>
                   /\ imp.module = "views"

\* The source of the unit test python_imports was compiled.
C2_Witness ==
    /\ Published
    /\ Len(dc_source) = 1
    /\ Len(dc_source[1]) = 3
    /\ dc_source[1][1].decl = "import" /\ dc_source[1][1].base = "*"
    /\ dc_source[1][2].decl = "import"
    /\ dc_source[1][2].base = "DistributedDonut"
    /\ dc_source[1][3].decl = "import" /\ dc_source[1][3].base = "Class"
    /\ get_num_imports(result.value) = 3

\* The input with every Ignore node removed.
WithoutIgnore(trees) ==
    [i \in 1..Len(trees) |->
       [type_declarations |->
          SelectSeq(trees[i].type_declarations, NotIgnore)]]

\* C3: the published DC file (imports, typedefs, structs, classes, hash) is
\* the one obtained from the same input with all Ignore nodes removed, the
\* analyzer returns no error, and the iteration over an Ignore node leaves
\* the intermediate DC file and the result as they were.
C3_IgnoreLeavesAggregate ==
    /\ [](/\ result.kind \in {"None", "Ok"}
          /\ Published =>
               result = semantic_analyzer(WithoutIgnore(syntax_trees)))
    /\ [][(InDecl /\ CurDecl.kind = "Ignore")
            => (dc_file' = dc_file /\ result' = result)]_vars

\* A source with an Ignore node among imports was compiled.
C3_Witness ==
    /\ Published
    /\ \E k \in 1..Len(AllDecls) : AllDecls[k].kind = "Ignore"
    /\ \E k \in 1..Len(AllDecls) : AllDecls[k].kind = "PythonImport"
    /\ get_num_imports(result.value) > 0

\* C4: every dclass and typedef node is materialized in the published
\* schema: it holds one class per dclass node, in order, with the node's
\* name, own fields and parents, and one type definition per typedef node
\* (so `typedef uint32 ChannelId;` then `dclass Avatar {name; hp}` publishes
\* exactly one class Avatar with two own fields and zero parents).
C4_DeclarationsMaterialized ==
    Published =>
      LET classes == SelectSeq(AllDecls, IsDClassType)
          typedefs == SelectSeq(AllDecls, IsTypedefType)
      IN  /\ Len(result.value.classes) = Len(classes)
          /\ Len(result.value.typedefs) = Len(typedefs)
          /\ \A k \in 1..Len(classes) :
               /\ result.value.classes[k].class_name = classes[k].name
               /\ Len(result.value.classes[k].fields)
                    = Len(classes[k].fields)
               /\ Len(result.value.classes[k].class_parents)
                    = Len(classes[k].parents)

\* The semantic errors of an input: a typedef alias declared twice, or a
\* parent that is not a class declared before.
HasSemanticError(decls) ==
    \/ \E i, j \in 1..Len(decls) :
         /\ i < j
         /\ IsTypedefType(decls[i]) /\ IsTypedefType(decls[j])
         /\ decls[i].alias = decls[j].alias
    \/ \E j \in 1..Len(decls) :
         /\ IsDClassType(decls[j])
         /\ \E p \in 1..Len(decls[j].parents) :
              ~\E i \in 1..(j - 1) :
                  /\ IsDClassType(decls[i])
                  /\ decls[i].name = decls[j].parents[p]

\* C5: when the input holds a semantic error (a duplicate typedef alias, a
\* parent reference to a class not yet declared), semantic_analyzer returns
\* an error and no DC file is published.
C5_ErrorsAbort ==
    (~Running /\ HasSemanticError(AllDecls)) => result.kind = "Err"

\* --------------------------------------------------------------- DClass
\* The classes created: a name and the id given to it.
ClassDecls == { [name |-> "Avatar", id |-> 0], [name |-> "Pet", id |-> 1] }

\* DClass::new with the class taken as well-formed from the start.
DClass_new_NotBogus(name, id) ==
    [class_name |-> name,
     class_id |-> id,
     is_struct |-> FALSE,
     is_bogus_class |-> FALSE,
     class_parents |-> <<>>,
     constructor |-> None,
     fields |-> <<>>,
     inherited_fields |-> <<>>,
     field_name_2_field |-> <<>>,
     field_index_2_field |-> <<>>]

\* DClass::new
DClass_new(name, id) ==
    [class_name |-> name,
     class_id |-> id,
     is_struct |-> FALSE,
     is_bogus_class |-> TRUE,
     class_parents |-> <<>>,
     constructor |-> None,
     fields |-> <<>>,
     inherited_fields |-> <<>>,
     field_name_2_field |-> <<>>,
     field_index_2_field |-> <<>>]

\* The heap is the sequence of allocations; an Arc is the address (index)
\* of its allocation.  Arc::new(Mutex::new(obj)) allocates the next address.
Addrs == 1..Len(heap)
Alloc(hp, obj) == Append(hp, obj)

\* Every &mut self method returns the heap it leaves and its return value.
Ret(hp, v) == [heap |-> hp, ret |-> v]

\* set_parent as single inheritance: the parent replaces the ones before.
set_parent_Replace(hp, self, parent) ==
    Ret([hp EXCEPT ![self].class_parents = <<parent>>], <<>>)

\* DClass::set_parent: class_parents.push(parent)
set_parent(hp, self, parent) ==
    Ret([hp EXCEPT ![self].class_parents = Append(@, parent)], <<>>)

\* DClass::get_name
get_name(hp, self) == Ret(hp, hp[self].class_name)

\* DClass::get_class_id
get_class_id(hp, self) == Ret(hp, hp[self].class_id)

\* DClass::get_num_parents
get_num_parents(hp, self) == Ret(hp, Len(hp[self].class_parents))

\* get_parent handing out a copy of the parent in an allocation of its own
\* (Arc::new(Mutex::new(parent.clone()))) while the heap has room.
get_parent_Copy(hp, self, index) ==
    IF index < Len(hp[self].class_parents)
    THEN IF Len(hp) <= MaxObjs
         THEN Ret(Alloc(hp, hp[hp[self].class_parents[index + 1]]),
                  Some(Len(hp) + 1))
         ELSE Ret(hp, Some(hp[self].class_parents[index + 1]))
    ELSE Ret(hp, None)

\* DClass::get_parent: class_parents.get(index).cloned()
get_parent(hp, self, index) ==
    Ret(hp, IF index < Len(hp[self].class_parents)
            THEN Some(hp[self].class_parents[index + 1])
            ELSE None)

\* DClass::has_constructor
has_constructor(hp, self) == Ret(hp, hp[self].constructor.some)

\* DClass::get_constructor
get_constructor(hp, self) == Ret(hp, hp[self].constructor)

NoHandle == [held |-> FALSE]

\* Number of set_parent calls made so far.
NumSetParent == SumSeq([a \in Addrs |-> Len(set_parent_args[a])])

\* Arc::new(Mutex::new(DClass::new(name, id)))
DCNew ==
    \E decl \in ClassDecls :
        /\ Len(heap) < MaxObjs
        /\ heap' = Alloc(heap, DClass_new(decl.name, decl.id))
        /\ new_args' = Append(new_args, decl)
        /\ set_parent_args' = Append(set_parent_args, <<>>)
        /\ UNCHANGED handle
        /\ UNCHANGED <<analyzer_vars, type_vars, logger_vars>>

\* class.lock().set_parent(parent.clone())
DCSetParent ==
    \E self \in Addrs, parent \in Addrs :
        /\ NumSetParent < MaxSetParent
        /\ heap' = set_parent(heap, self, parent).heap
        /\ set_parent_args' =
               [set_parent_args EXCEPT ![self] = Append(@, parent)]
        /\ UNCHANGED <<new_args, handle>>
        /\ UNCHANGED <<analyzer_vars, type_vars, logger_vars>>

\* A getter call leaves the heap the method leaves; an allocation made by
\* the call is a class nobody called new or set_parent on.
Getter(r) ==
    /\ heap' = r.heap
    /\ new_args' =
           new_args \o [k \in 1..(Len(r.heap) - Len(heap)) |->
                          [name |-> r.heap[Len(heap) + k].class_name,
                           id |-> r.heap[Len(heap) + k].class_id]]
    /\ set_parent_args' =
           set_parent_args \o [k \in 1..(Len(r.heap) - Len(heap)) |->
                                 r.heap[Len(heap) + k].class_parents]
    /\ UNCHANGED <<analyzer_vars, type_vars, logger_vars>>

DCGetName ==
    \E self \in Addrs :
        Getter(get_name(heap, self)) /\ UNCHANGED handle

DCGetClassId ==
    \E self \in Addrs :
        Getter(get_class_id(heap, self)) /\ UNCHANGED handle

DCGetNumParents ==
    \E self \in Addrs :
        Getter(get_num_parents(heap, self)) /\ UNCHANGED handle

\* The caller keeps the handle get_parent returned, and what the parent
\* looked like through it at that time.
DCGetParent ==
    \E self \in Addrs, index \in 0..MaxSetParent :
        LET r == get_parent(heap, self, index)
        IN  /\ Getter(r)
            /\ handle' = IF r.ret.some
                         THEN [held |-> TRUE, child |-> self,
                               index |-> index, ptr |-> r.ret.v,
                               seen |-> r.heap[r.ret.v]]
                         ELSE handle

DCHasConstructor ==
    \E self \in Addrs :
        Getter(has_constructor(heap, self)) /\ UNCHANGED handle

DCGetConstructor ==
    \E self \in Addrs :
        Getter(get_constructor(heap, self)) /\ UNCHANGED handle

DClassInit ==
    /\ heap = <<>>
    /\ new_args = <<>>
    /\ set_parent_args = <<>>
    /\ handle = NoHandle

\* ------------------------------------------------------ claims on DClass
\* C7: after n set_parent calls on a class, get_num_parents returns n and
\* get_parent(i), 0 <= i < n, returns the parent passed to the (i+1)-th
\* call; no step removes, replaces or reorders the parents already added
\* or changes another attribute of a class.
C7_ParentsAdditiveOrdered ==
    /\ [](\A c \in Addrs :
            /\ get_num_parents(heap, c).ret = Len(set_parent_args[c])
            /\ \A i \in 0..(Len(set_parent_args[c]) - 1) :
                 get_parent(heap, c, i).ret = Some(set_parent_args[c][i + 1]))
    /\ [][\A c \in Addrs :
            /\ Len(heap'[c].class_parents) >= Len(heap[c].class_parents)
            /\ SubSeq(heap'[c].class_parents, 1, Len(heap[c].class_parents))
                 = heap[c].class_parents
            /\ [heap'[c] EXCEPT !.class_parents = heap[c].class_parents]
                 = heap[c]]_vars

\* A class was given two different parents.
C7_Witness ==
    \E c \in Addrs :
        /\ Len(set_parent_args[c]) = 2
        /\ set_parent_args[c][1] # set_parent_args[c][2]
        /\ get_num_parents(heap, c).ret = 2

\* C8: get_parent returns the very allocation handed to set_parent: the
\* same address for every child that was given it, and the handle a caller
\* kept shows the parent as it is now, whatever set_parent calls were made
\* on the parent since.
C8_SharedParentHandle ==
    /\ \A c \in Addrs :
         \A i \in 0..(Len(set_parent_args[c]) - 1) :
            LET r == get_parent(heap, c, i)
            IN  /\ r.ret = Some(set_parent_args[c][i + 1])
                /\ r.heap[r.ret.v] = heap[set_parent_args[c][i + 1]]
    /\ handle.held =>
         /\ handle.ptr = set_parent_args[handle.child][handle.index + 1]
         /\ heap[handle.ptr]
              = heap[get_parent(heap, handle.child, handle.index).ret.v]

\* Two children reference one parent, a caller holds a handle to it, and
\* the parent was given a parent after the handle was handed out.
C8_Witness ==
    /\ handle.held
    /\ heap[handle.ptr] # handle.seen
    /\ \E c \in Addrs \ {handle.child} :
         \E i \in 0..(Len(set_parent_args[c]) - 1) :
            get_parent(heap, c, i).ret = Some(handle.ptr)

\* C9: a class is as DClass::new(name, id) made it: no constructor, no own
\* or inherited fields, is_bogus, not a struct, name and id as given, and
\* until set_parent is called on it no parent at any index; no getter
\* changes the state of any class.
C9_NewCreatesRoot ==
    \A a \in Addrs :
        /\ set_parent_args[a] = <<>> =>
             /\ get_num_parents(heap, a).ret = 0
             /\ \A i \in 0..MaxSetParent : get_parent(heap, a, i).ret = None
        /\ has_constructor(heap, a).ret = FALSE
        /\ get_constructor(heap, a).ret = None
        /\ heap[a].fields = <<>>
        /\ heap[a].inherited_fields = <<>>
        /\ heap[a].is_bogus_class = TRUE
        /\ heap[a].is_struct = FALSE
        /\ get_name(heap, a).ret = new_args[a].name
        /\ get_class_id(heap, a).ret = new_args[a].id
        /\ get_name(heap, a).heap = heap
        /\ get_class_id(heap, a).heap = heap
        /\ get_num_parents(heap, a).heap = heap
        /\ has_constructor(heap, a).heap = heap
        /\ get_constructor(heap, a).heap = heap
        /\ \A i \in 0..MaxSetParent : get_parent(heap, a, i).heap = heap

\* Two classes of different names and ids exist, one still a root.
C9_Witness ==
    /\ Len(heap) = 2
    /\ new_args[1] # new_args[2]
    /\ set_parent_args[2] = <<>>
    /\ set_parent_args[1] # <<>>

\* ----------------------------------------------------- DCTypeDefinition
Aliases == {"ChannelId", "DoId"}

TypeNew ==
    /\ type_def' = DCTypeDefinition_new
    /\ type_last' = [op |-> "new"]
    /\ UNCHANGED hashgen
    /\ UNCHANGED <<analyzer_vars, dclass_vars, logger_vars>>

TypeNewWithType ==
    \E dt \in DCTypeEnum :
        /\ type_def' = new_with_type(dt)
        /\ type_last' = [op |-> "new_with_type"]
        /\ UNCHANGED hashgen
        /\ UNCHANGED <<analyzer_vars, dclass_vars, logger_vars>>

TypeSetAlias ==
    \E alias \in Aliases :
        /\ type_def' = set_alias(type_def, alias)
        /\ type_last' = [op |-> "set_alias"]
        /\ UNCHANGED hashgen
        /\ UNCHANGED <<analyzer_vars, dclass_vars, logger_vars>>

TypeIsVariableLength ==
    /\ type_last' = [op |-> "is_variable_length",
                     ret |-> is_variable_length(type_def)]
    /\ UNCHANGED <<type_def, hashgen>>
    /\ UNCHANGED <<analyzer_vars, dclass_vars, logger_vars>>

TypeGetSize ==
    /\ type_last' = [op |-> "get_size", ret |-> get_size(type_def)]
    /\ UNCHANGED <<type_def, hashgen>>
    /\ UNCHANGED <<analyzer_vars, dclass_vars, logger_vars>>

\* The generators handed to generate_hash: a new one, and one that other
\* elements of the schema have fed before.
HashGenerators == { <<>>, <<[int |-> 6], [string |-> "DoId"]>> }

\* type_def.generate_hash(&mut hashgen): &self, the definition is only read.
TypeGenerateHash ==
    \E hg \in HashGenerators :
        /\ hashgen' = generate_hash(type_def, hg)
        /\ type_last' = [op |-> "generate_hash", given |-> hg]
        /\ UNCHANGED type_def
        /\ UNCHANGED <<analyzer_vars, dclass_vars, logger_vars>>

TypeInit ==
    /\ type_def = DCTypeDefinition_new
    /\ type_last = [op |-> "new"]
    /\ hashgen = <<>>

\* -------------------------------------------- claims on DCTypeDefinition
\* C10: for every type definition built with new, new_with_type and
\* set_alias, size = 0 exactly when data_type is a variable-length kind
\* (var string, var blob, var blob32, var array), and is_variable_length
\* returns true exactly in that case.
C10_SizeZeroIffVariableLength ==
    /\ (type_def.size = 0) <=> (type_def.data_type \in VariableLengthKinds)
    /\ is_variable_length(type_def)
         <=> (type_def.data_type \in VariableLengthKinds)

\* s is a prefix of t, and shorter.
IsStrictPrefix(s, t) == Len(s) < Len(t) /\ SubSeq(t, 1, Len(s)) = s

\* C11: generate_hash feeds the generator the type's tag (add_int) and
\* then, only if an alias is set, the alias (add_string), and leaves the
\* definition as it was; what an un-aliased type feeds is a strict prefix
\* of what the same type feeds with any alias set; the tags of the
\* DCTypeEnum variants are pairwise distinct, so definitions of different
\* variants feed different tags.
C11_HashFeed ==
    /\ [](/\ type_last.op = "generate_hash" =>
               hashgen = type_last.given
                           \o <<[int |-> DCTypeTag[type_def.data_type]]>>
                           \o (IF has_alias(type_def)
                               THEN <<[string |-> type_def.alias.v]>>
                               ELSE <<>>)
          /\ \A hg \in HashGenerators, alias \in Aliases :
                IsStrictPrefix(
                    generate_hash(new_with_type(get_dc_type(type_def)), hg),
                    generate_hash(set_alias(type_def, alias), hg))
          /\ \A dt \in DCTypeEnum :
                dt # type_def.data_type =>
                  /\ DCTypeTag[dt] # DCTypeTag[type_def.data_type]
                  /\ generate_hash(new_with_type(dt), <<>>)[1]
                       # generate_hash(type_def, <<>>)[1])
    /\ [][type_last'.op = "generate_hash" => type_def' = type_def]_vars

\* An aliased definition was hashed into a generator fed before.
C11_Witness ==
    /\ type_last.op = "generate_hash"
    /\ has_alias(type_def)
    /\ type_last.given # <<>>
    /\ Len(hashgen) = Len(type_last.given) + 2

\* ------------------------------------------- event logger: str_to_interval
\* Strings are sequences of characters.
DigitChars == <<"0", "1", "2", "3", "4", "5", "6", "7", "8", "9">>
Digits == { DigitChars[k] : k \in DOMAIN DigitChars }
DigitValue(ch) == (CHOOSE k \in DOMAIN DigitChars : DigitChars[k] = ch) - 1

\* The characters conf.rotate_interval is drawn from.
IntervalChars == {"-", "0", "1", "9", "m", "i", "n", "h", "r", "d", "o"}

\* How an evaluation ends: with a value, or in a panic.
Returned(v) == [kind |-> "returned", value |-> v]
Panic(msg) == [kind |-> "panic", value |-> msg]

\* Number of consecutive characters of input from position i on that are
\* in set: a greedy repetition.
RECURSIVE Run(_, _, _)
Run(input, i, set) ==
    IF i <= Len(input) /\ input[i] \in set
    THEN 1 + Run(input, i + 1, set)
    ELSE 0

\* quantity_re, r"-{0,}(0|([1-9][0-9]*))", tried at position i: the
\* position its match ends at, or 0.  The dashes are taken greedily; with
\* fewer of them a dash stands where the digit must.
quantity_re_at(input, i) ==
    LET j == i + Run(input, i, {"-"})
    IN  IF j > Len(input) THEN 0
        ELSE IF input[j] = "0" THEN j
        ELSE IF input[j] \in Digits \ {"0"}
             THEN j + Run(input, j + 1, Digits)
        ELSE 0

\* quantity_re.find(input): the leftmost match, as_str().
quantity_re_find(input) ==
    LET starts == { i \in 1..Len(input) : quantity_re_at(input, i) # 0 }
    IN  IF starts = {} THEN None
        ELSE LET i == CHOOSE a \in starts : \A b \in starts : a <= b
             IN  Some(SubSeq(input, i, quantity_re_at(input, i)))

\* The alternatives of unit_re, r"((min)|h|(hr)|d|(mo))$", in order.
UnitAlternatives ==
    << <<"m", "i", "n">>, <<"h">>, <<"h", "r">>, <<"d">>, <<"m", "o">> >>

\* unit_re tried at position i: the first alternative that matches there
\* with the end of the input right after it.
unit_re_at(input, i) ==
    LET fits == { k \in DOMAIN UnitAlternatives :
                    SubSeq(input, i, Len(input)) = UnitAlternatives[k] }
    IN  IF fits = {} THEN None
        ELSE Some(UnitAlternatives[CHOOSE a \in fits : \A b \in fits : a <= b])

\* unit_re.find(input): the leftmost match, as_str().
unit_re_find(input) ==
    LET starts == { i \in 1..Len(input) : unit_re_at(input, i).some }
    IN  IF starts = {} THEN None
        ELSE unit_re_at(input, CHOOSE a \in starts : \A b \in starts : a <= b)

\* The number a string of digits writes.
RECURSIVE DecimalValue(_)
DecimalValue(digits) ==
    IF digits = <<>> THEN 0
    ELSE 10 * DecimalValue(SubSeq(digits, 1, Len(digits) - 1))
           + DigitValue(digits[Len(digits)])

\* str.parse::<i64>() of a match of quantity_re: one sign at most.  (The
\* digits of an input of MaxIntervalLen characters are within i64.)
parse_i64(str) ==
    LET dashes == Run(str, 1, {"-"})
        digits == SubSeq(str, dashes + 1, Len(str))
    IN  IF dashes > 1 \/ digits = <<>> THEN None
        ELSE IF dashes = 1 THEN Some(0 - DecimalValue(digits))
        ELSE Some(DecimalValue(digits))

\* The match with "hr" read as minutes.
IntervalUnit_HrAsMinutes(unit_match) ==
    CASE unit_match = <<"m", "i", "n">> -> Returned("Minutes")
      [] unit_match = <<"h">>           -> Returned("Hours")
      [] unit_match = <<"h", "r">>      -> Returned("Minutes")
      [] unit_match = <<"d">>           -> Returned("Days")
      [] unit_match = <<"m", "o">>      -> Returned("Months")
      [] OTHER                          -> Panic("Regex invalid")

\* match unit_match { .. }
IntervalUnit(unit_match) ==
    CASE unit_match = <<"m", "i", "n">> -> Returned("Minutes")
      [] unit_match = <<"h">>           -> Returned("Hours")
      [] unit_match = <<"h", "r">>      -> Returned("Hours")
      [] unit_match = <<"d">>           -> Returned("Days")
      [] unit_match = <<"m", "o">>      -> Returned("Months")
      [] OTHER                          -> Panic("Regex invalid")

\* str_to_interval without its assertion on the quantity.
str_to_interval_NoAssert(input) ==
    LET quantity_match == quantity_re_find(input)
        quantity == parse_i64(quantity_match.v)
        unit_match == unit_re_find(input)
    IN  IF quantity_match.some /\ quantity.some /\ unit_match.some
        THEN Returned(<<quantity.v, IntervalUnit(unit_match.v).value>>)
        ELSE Panic("did not match")

\* EventLogger::str_to_interval
str_to_interval(input) ==
    LET quantity_match == quantity_re_find(input)
    IN  IF ~quantity_match.some
        THEN Panic("Regex for interval unit quantity did not match.")
        ELSE
    LET quantity == parse_i64(quantity_match.v)
    IN  IF ~quantity.some THEN Panic("unwrap: ParseIntError")
        ELSE IF ~(quantity.v >= 1)
        THEN Panic("Log rotation interval unit quantity cannot be negative or zero.")
        ELSE
    LET unit_match == unit_re_find(input)
    IN  IF ~unit_match.some
        THEN Panic("Regex for interval unit type did not match.")
        ELSE
    LET unit_type == IntervalUnit(unit_match.v)
    IN  IF unit_type.kind = "panic" THEN unit_type
        ELSE Returned(<<quantity.v, unit_type.value>>)

\* ------------------------------------------------- event logger: create
\* No interval: the EventLogger does not exist.
NoInterval == <<0, "">>
NoEvent == [type |-> "", sender |-> "", msg |-> "", id |-> 0]
NoDgi == [dg |-> [payload |-> "", event |-> NoEvent], remaining |-> FALSE]

\* The state before EventLogger::create, whatever conf.rotate_interval is.
LoggerNotCreated ==
    /\ rotation_interval = NoInterval
    /\ next_rotation = 0
    /\ log_file = None
    /\ files = <<>>
    /\ now = 0
    /\ unix_time = 0
    /\ checked = 0
    /\ dgi = NoDgi
    /\ packets = <<>>

\* No event logger service is configured.
LoggerIdle ==
    /\ conf_rotate_interval = <<>>
    /\ lg_pc = "idle"
    /\ LoggerNotCreated

\* EventLogger::start: create(service_conf), then main is spawned.  The
\* socket is bound first; a panic of str_to_interval unwinds create.
LoggerCreate ==
    /\ lg_pc = "create"
    /\ \E bind_ok \in BOOLEAN :
        LET interval == str_to_interval(conf_rotate_interval)
        IN  IF ~bind_ok
            THEN lg_pc' = "returned" /\ UNCHANGED rotation_interval
            ELSE IF interval.kind = "panic"
            THEN lg_pc' = "panicked" /\ UNCHANGED rotation_interval
            ELSE lg_pc' = "main" /\ rotation_interval' = interval.value
    /\ UNCHANGED <<conf_rotate_interval, next_rotation, log_file, files, now,
                   unix_time, checked, dgi, packets>>
    /\ UNCHANGED <<analyzer_vars, dclass_vars, type_vars>>

IntervalInit ==
    /\ \E n \in 0..MaxIntervalLen :
          conf_rotate_interval \in [1..n -> IntervalChars]
    /\ lg_pc = "create"
    /\ LoggerNotCreated

\* --------------------------------------------------- event logger: main
\* The configurations the service is started with.
LoggerConfs ==
    { <<"1", "m", "i", "n">>, <<"1", "h">>, <<"1", "d">>, <<"1", "m", "o">>,
      <<"0", "d">> }

\* What a received packet can hold: a well-formed MessagePack map, another
\* well-formed MessagePack value, or bytes that do not decode.
Payloads == {"map", "other", "malformed"}

\* LoggedEvent::new(type, sender) with event.add("msg", msg)
LoggedEvent(type, sender, msg) ==
    [type |-> type, sender |-> sender, msg |-> msg, id |-> 0]

\* event.make_datagram(): the event as a MessagePack map.
make_datagram(event) == [payload |-> "map", event |-> event]

\* The id-th packet from the socket, as a datagram (dg.add_data).
ReceivedDatagram(payload, id) ==
    [payload |-> payload,
     event |-> [type |-> "event", sender |-> "peer", msg |-> "", id |-> id]]

\* DatagramIterator::from(dg): nothing read yet.
DatagramIterator(dg) == [dg |-> dg, remaining |-> TRUE]

\* msgpack::decode_to_json(data, dgi): reads the datagram through the
\* iterator and writes its JSON text into data.  data is the first
\* character of the text and the event the text spells out.  What the
\* decoder does with an iterator that has nothing left to read is not
\* fixed here: at_end is either "Err" or "Empty" (Ok with no text).
decode_to_json(d, at_end) ==
    LET read == [d EXCEPT !.remaining = FALSE]
    IN  IF ~d.remaining
        THEN IF at_end = "Err"
             THEN [ok |-> FALSE, data |-> [first |-> "", event |-> NoEvent],
                   dgi |-> d]
             ELSE [ok |-> TRUE, data |-> [first |-> "", event |-> NoEvent],
                   dgi |-> d]
        ELSE CASE d.dg.payload = "map" ->
                    [ok |-> TRUE, data |-> [first |-> "{", event |-> d.dg.event],
                     dgi |-> read]
               [] d.dg.payload = "other" ->
                    [ok |-> TRUE, data |-> [first |-> "[", event |-> d.dg.event],
                     dgi |-> read]
               [] OTHER ->
                    [ok |-> FALSE, data |-> [first |-> "", event |-> NoEvent],
                     dgi |-> read]

\* Duration::minutes / hours / days of the interval, in seconds.
IntervalSeconds(interval) ==
    CASE interval[2] = "Minutes" -> 60 * interval[1]
      [] interval[2] = "Hours"   -> 3600 * interval[1]
      [] interval[2] = "Days"    -> 86400 * interval[1]
      [] interval[2] = "Months"  -> 86400 * (interval[1] * 30)

\* The log files with the one log_file holds, if any, closed.
Dropped(fs, lf) ==
    IF lf.some THEN [fs EXCEPT ![lf.v].open = FALSE] ELSE fs

\* open_log that creates the new file without dropping the current one.
open_log_KeepOpen(create_ok) ==
    IF ~create_ok
    THEN [ok |-> FALSE, log_file |-> None, files |-> files,
          next_rotation |-> next_rotation]
    ELSE [ok |-> TRUE, log_file |-> Some(Len(files) + 1),
          files |-> Append(files,
                           [created |-> now, open |-> TRUE, entries |-> <<>>]),
          next_rotation |-> now + IntervalSeconds(rotation_interval)]

\* open_log that leaves next_rotation as it was.
open_log_NoAdvance(create_ok) ==
    IF ~create_ok
    THEN [ok |-> FALSE, log_file |-> None, files |-> Dropped(files, log_file),
          next_rotation |-> next_rotation]
    ELSE [ok |-> TRUE, log_file |-> Some(Len(files) + 1),
          files |-> Append(Dropped(files, log_file),
                           [created |-> now, open |-> TRUE, entries |-> <<>>]),
          next_rotation |-> next_rotation]

\* EventLogger::open_log: reads the clock, drops the current file, creates
\* the new one (create_new can fail: create_ok), then sets next_rotation.
open_log(create_ok) ==
    LET date == now
        taken == Dropped(files, log_file)
    IN  IF ~create_ok
        THEN [ok |-> FALSE, log_file |-> None, files |-> taken,
              next_rotation |-> next_rotation]
        ELSE [ok |-> TRUE, log_file |-> Some(Len(taken) + 1),
              files |-> Append(taken, [created |-> date, open |-> TRUE,
                                       entries |-> <<>>]),
              next_rotation |-> date + IntervalSeconds(rotation_interval)]

\* EventLogger::process_datagram on iterator d, with log_file lf over the
\* files fs: Ok with the entry written, Err, or a panic.
process_datagram(d, fs, lf, at_end, write_ok) ==
    LET decoded == decode_to_json(d, at_end)
        data == decoded.data
        entry == [event |-> data.event, time |-> now]
    IN  IF ~decoded.ok
        THEN [result |-> "Err", why |-> "decode", files |-> fs,
              dgi |-> decoded.dgi]
        ELSE IF data.first # "" /\ data.first # "{"
        THEN [result |-> "Err", why |-> "non-map", files |-> fs,
              dgi |-> decoded.dgi]
        ELSE IF data.first = ""
        THEN [result |-> "Panic", why |-> "insert_str", files |-> fs,
              dgi |-> decoded.dgi]
        ELSE IF ~lf.some
        THEN [result |-> "Panic", why |-> "unwrap on None", files |-> fs,
              dgi |-> decoded.dgi]
        ELSE IF ~write_ok
        THEN [result |-> "Err", why |-> "write", files |-> fs,
              dgi |-> decoded.dgi]
        ELSE [result |-> "Ok", why |-> "", dgi |-> decoded.dgi,
              files |-> [fs EXCEPT ![lf.v].entries = Append(@, entry)]]

\* main ended in a panic raised for the reason why.
Panicked(why) == "panicked: " \o why

\* main, line 100: service_lock.open_log().await?
MainOpenLog ==
    /\ lg_pc = "main"
    /\ \E create_ok \in BOOLEAN :
        LET opened == open_log(create_ok)
        IN  /\ log_file' = opened.log_file
            /\ files' = opened.files
            /\ next_rotation' = opened.next_rotation
            /\ lg_pc' = IF opened.ok THEN "log_opened" ELSE "returned"
    /\ UNCHANGED <<conf_rotate_interval, rotation_interval, now, unix_time,
                   checked, dgi, packets>>
    /\ UNCHANGED <<analyzer_vars, dclass_vars, type_vars>>

\* main, lines 108-122: the "log-opened" event of startup is processed.
MainLogOpened ==
    /\ lg_pc = "log_opened"
    /\ \E write_ok \in BOOLEAN :
        LET event == LoggedEvent("log-opened", "EventLogger",
                                 "Log opened upon Event Logger startup.")
            done == process_datagram(DatagramIterator(make_datagram(event)),
                                     files, log_file, "Err", write_ok)
        IN  /\ files' = done.files
            /\ dgi' = done.dgi
            /\ lg_pc' = IF done.result = "Ok" THEN "recv"
                         ELSE Panicked("Failed to process log opened event!")
    /\ UNCHANGED <<conf_rotate_interval, rotation_interval, next_rotation,
                   log_file, now, unix_time, checked, packets>>
    /\ UNCHANGED <<analyzer_vars, dclass_vars, type_vars>>

\* main, lines 125-145: a packet is received (or recv_from fails), dgi is
\* made from it, the clock is read and compared with next_rotation.
MainRecv ==
    /\ lg_pc = "recv"
    /\ Len(packets) < MaxPackets
    /\ \E recv_ok \in BOOLEAN, payload \in Payloads :
        IF ~recv_ok
        THEN /\ lg_pc' = "returned"
             /\ UNCHANGED <<dgi, unix_time, checked, packets>>
        ELSE LET id == Len(packets) + 1
             IN  /\ dgi' = DatagramIterator(ReceivedDatagram(payload, id))
                 /\ unix_time' = now
                 /\ checked' = next_rotation
                 /\ packets' = Append(packets,
                        [payload |-> payload, id |-> id, unix_time |-> now,
                         due |-> next_rotation <= now,
                         files_before |-> Len(files), outcome |-> "pending"])
                 /\ lg_pc' = IF next_rotation <= now THEN "rotate"
                                                      ELSE "process"
    /\ UNCHANGED <<conf_rotate_interval, rotation_interval, next_rotation,
                   log_file, files, now>>
    /\ UNCHANGED <<analyzer_vars, dclass_vars, type_vars>>

\* rotate_log, line 253: self.open_log().await?
RotateOpenLog ==
    /\ lg_pc = "rotate"
    /\ \E create_ok \in BOOLEAN :
        LET opened == open_log(create_ok)
        IN  /\ log_file' = opened.log_file
            /\ files' = opened.files
            /\ next_rotation' = opened.next_rotation
            /\ lg_pc' = IF opened.ok THEN "log_cycled" ELSE "returned"
    /\ UNCHANGED <<conf_rotate_interval, rotation_interval, now, unix_time,
                   checked, dgi, packets>>
    /\ UNCHANGED <<analyzer_vars, dclass_vars, type_vars>>

\* rotate_log, lines 255-270: *dgi is assigned the iterator of the
\* "Log cycled." event, which is processed through it.
RotateLogCycled ==
    /\ lg_pc = "log_cycled"
    /\ \E write_ok \in BOOLEAN :
        LET event == LoggedEvent("log-opened", "EventLogger", "Log cycled.")
            done == process_datagram(DatagramIterator(make_datagram(event)),
                                     files, log_file, "Err", write_ok)
        IN  /\ files' = done.files
            /\ dgi' = done.dgi
            /\ lg_pc' = IF done.result = "Ok" THEN "process"
                         ELSE Panicked("Failed to process log cycled event!")
    /\ UNCHANGED <<conf_rotate_interval, rotation_interval, next_rotation,
                   log_file, now, unix_time, checked, packets>>
    /\ UNCHANGED <<analyzer_vars, dclass_vars, type_vars>>

\* main, lines 147-153: process_datagram on main's dgi; an Err is logged
\* and the loop continues.
MainProcess ==
    /\ lg_pc = "process"
    /\ \E at_end \in {"Err", "Empty"}, write_ok \in BOOLEAN :
        LET done == process_datagram(dgi, files, log_file, at_end, write_ok)
        IN  /\ files' = done.files
            /\ dgi' = done.dgi
            /\ packets' = [packets EXCEPT ![Len(packets)].outcome =
                              IF done.result = "Ok" THEN "Ok"
                              ELSE done.result \o ": " \o done.why]
            /\ lg_pc' = IF done.result = "Panic" THEN Panicked(done.why)
                         ELSE "recv"
    /\ UNCHANGED <<conf_rotate_interval, rotation_interval, next_rotation,
                   log_file, now, unix_time, checked>>
    /\ UNCHANGED <<analyzer_vars, dclass_vars, type_vars>>

\* The clock advances while main awaits a packet and between main's
\* reading of the clock and open_log's: to the second before the rotation
\* falls due, to that second, and second by second once it is due.
Tick ==
    /\ lg_pc \in {"recv", "rotate"}
    /\ \E t \in {next_rotation - 1, next_rotation}
                 \cup {u \in {now + 1} : next_rotation <= now} :
        /\ t > now
        /\ t <= next_rotation + MaxLate
        /\ now' = t
    /\ UNCHANGED <<conf_rotate_interval, lg_pc, rotation_interval,
                   next_rotation, log_file, files, unix_time, checked, dgi,
                   packets>>
    /\ UNCHANGED <<analyzer_vars, dclass_vars, type_vars>>

LoggerInit ==
    /\ conf_rotate_interval \in LoggerConfs
    /\ lg_pc = "create"
    /\ LoggerNotCreated

\* ----------------------------------------------------------- C12, C13
\* The unit names and the unit type each stands for.
UnitTypeOf ==
    [u \in {<<"m", "i", "n">>, <<"h">>, <<"h", "r">>, <<"d">>, <<"m", "o">>} |->
        CASE u = <<"m", "i", "n">> -> "Minutes"
          [] u \in {<<"h">>, <<"h", "r">>} -> "Hours"
          [] u = <<"d">> -> "Days"
          [] OTHER -> "Months"]

AllDigits(str) == str # <<>> /\ \A i \in 1..Len(str) : str[i] \in Digits

\* The places where input splits into a number n >= 1 written in decimal
\* and a unit name.
QuantityUnitSplits(input) ==
    { k \in 1..Len(input) :
        /\ AllDigits(SubSeq(input, 1, k))
        /\ input[1] # "0"
        /\ SubSeq(input, k + 1, Len(input)) \in DOMAIN UnitTypeOf }

\* C12: for every string '<n><unit>' with n a decimal integer >= 1 and
\* unit one of min, h, hr, d, mo, str_to_interval returns the pair of n
\* and the unit type: min is Minutes, h and hr are Hours, d is Days, mo is
\* Months; create gives the EventLogger that pair as rotation_interval.
C12_IntervalParsed ==
    \A k \in QuantityUnitSplits(conf_rotate_interval) :
        LET n == DecimalValue(SubSeq(conf_rotate_interval, 1, k))
            unit == SubSeq(conf_rotate_interval, k + 1,
                           Len(conf_rotate_interval))
        IN  /\ str_to_interval(conf_rotate_interval)
                  = Returned(<<n, UnitTypeOf[unit]>>)
            /\ lg_pc # "panicked"
            /\ lg_pc = "main" => rotation_interval = <<n, UnitTypeOf[unit]>>

\* create returned an EventLogger for a two-digit number of "hr".
C12_Witness ==
    /\ lg_pc = "main"
    /\ conf_rotate_interval = <<"1", "9", "h", "r">>
    /\ rotation_interval = <<19, "Hours">>

\* The strings that write a negative or zero quantity before a unit name:
\* an optional minus sign, digits, the unit, the number being <= 0.
NonPositiveInterval(input) ==
    \E s \in 0..1, k \in 1..Len(input) :
        /\ s = 1 => input[1] = "-"
        /\ s < k
        /\ AllDigits(SubSeq(input, s + 1, k))
        /\ SubSeq(input, k + 1, Len(input)) \in DOMAIN UnitTypeOf
        /\ (s = 1 \/ DecimalValue(SubSeq(input, s + 1, k)) = 0)

\* C13: str_to_interval panics on every interval whose quantity is
\* negative or zero and returns no Interval for it, so create never
\* yields an EventLogger whose rotation_interval quantity is below 1.
C13_NonPositiveRejected ==
    /\ NonPositiveInterval(conf_rotate_interval) =>
          /\ str_to_interval(conf_rotate_interval).kind = "panic"
          /\ lg_pc # "main"
          /\ rotation_interval = NoInterval
    /\ lg_pc = "main" => rotation_interval[1] >= 1

\* create panicked on a negative quantity, and on a zero one.
C13_Witness ==
    /\ lg_pc = "panicked"
    /\ conf_rotate_interval \in {<<"-", "1", "d">>, <<"0", "d">>}
    /\ NonPositiveInterval(conf_rotate_interval)

\* ------------------------------------------------------ C14, C15, C16
\* The packet of the current (or last) turn of main's loop.
CurPacket == packets[Len(packets)]

\* Where the log files hold an entry for the packet with this id.
EntriesOf(id) ==
    { fk \in { <<f, k>> : f \in 1..Len(files), k \in 1..MaxPackets + 1 } :
        /\ fk[2] <= Len(files[fk[1]].entries)
        /\ files[fk[1]].entries[fk[2]].event.id = id }

\* The turn of the current packet has opened a new log file.
Rotated ==
    /\ log_file.some
    /\ Len(files) = CurPacket.files_before + 1
    /\ log_file.v = Len(files)

IsLogOpened(entry) ==
    entry.event.type = "log-opened" /\ entry.event.sender = "EventLogger"

\* C14: for a packet received at a time t (main's unix_time) with
\* next_rotation <= t, nothing is written for the packet before a new log
\* file has been opened and next_rotation has been set to the time of
\* opening plus the configured interval (a month being 30 days), which
\* is later than the time of opening: until then main is about to rotate
\* or has returned open_log's error; for a packet received with
\* next_rotation > t no file is opened and next_rotation stays as it was.
C14_RotationBeforeWrite ==
    packets # <<>> =>
        LET p == CurPacket
            new == files[Len(files)]
        IN  /\ p.due <=> checked <= unix_time
            /\ p.due /\ ~Rotated =>
                  /\ EntriesOf(p.id) = {}
                  /\ lg_pc \in {"rotate", "returned"}
                  /\ next_rotation = checked
            /\ p.due /\ Rotated =>
                  /\ new.created >= unix_time
                  /\ next_rotation
                       = new.created
                         + (CASE rotation_interval[2] = "Minutes" -> 60
                              [] rotation_interval[2] = "Hours" -> 60 * 60
                              [] rotation_interval[2] = "Days" -> 24 * 60 * 60
                              [] OTHER -> 30 * 24 * 60 * 60)
                           * rotation_interval[1]
                  /\ next_rotation > new.created
                  /\ \A fk \in EntriesOf(p.id) : fk[1] = Len(files)
                  /\ lg_pc = "log_cycled" => EntriesOf(p.id) = {}
            /\ ~p.due =>
                  /\ lg_pc \notin {"rotate", "log_cycled"}
                  /\ Len(files) = p.files_before
                  /\ next_rotation = checked

\* A packet arrived with the rotation due, open_log ran a second later
\* than main read the clock, and the packet is about to be processed.
C14_Witness ==
    /\ lg_pc = "process"
    /\ packets # <<>>
    /\ CurPacket.due
    /\ Rotated
    /\ files[Len(files)].created > unix_time
    /\ Len(files[Len(files)].entries) = 1

\* C15: every received packet whose payload is a well-formed MessagePack
\* map is written to the log exactly once (its processing done and the
\* write not failed), a packet received when a rotation is due included:
\* that one is written to the newly opened log after the "Log cycled."
\* entry.
C15_NoEventLost ==
    \A i \in 1..Len(packets) :
        LET p == packets[i]
        IN  p.payload = "map" /\ p.outcome \notin {"pending", "Err: write"} =>
              /\ Cardinality(EntriesOf(p.id)) = 1
              /\ p.due =>
                    \A fk \in EntriesOf(p.id) :
                        /\ fk[1] = p.files_before + 1
                        /\ fk[2] > 1

\* The log files that are open.
OpenFiles == { f \in 1..Len(files) : files[f].open }

\* C16: process_datagram is invoked only while log_file holds an open
\* file and never finds it None; open_log drops the current file before
\* it creates the new one, so at most one log file is open, the one
\* log_file holds; log_file is None only before main's first open_log or
\* once main has returned the error of a failed creation; the first entry
\* of every log file is the logger's own "log-opened" event.
C16_WritesOnlyToOpenLog ==
    /\ Cardinality(OpenFiles) <= 1
    /\ OpenFiles = IF log_file.some THEN {log_file.v} ELSE {}
    /\ lg_pc \in {"log_opened", "log_cycled", "process"} => log_file.some
    /\ lg_pc # Panicked("unwrap on None")
    /\ ~log_file.some => lg_pc \in {"create", "panicked", "main", "returned"}
    /\ \A f \in 1..Len(files) :
          files[f].entries # <<>> => IsLogOpened(files[f].entries[1])

\* Creating the file of a rotation failed: main returned, the earlier log
\* is closed and holds its "log-opened" entry and a packet's entry.
C16_Witness ==
    /\ lg_pc = "returned"
    /\ ~log_file.some
    /\ Len(files) = 1
    /\ Len(files[1].entries) = 2
    /\ packets # <<>>
    /\ CurPacket.due
    /\ CurPacket.outcome = "pending"

\* ------------------------------------------------------- specifications
Init == AnalyzerInit /\ DClassInit /\ TypeInit /\ LoggerIdle

Next ==
    \/ VisitPythonImport
    \/ VisitKeywordType
    \/ VisitStructType
    \/ VisitDClassType
    \/ VisitTypedefType
    \/ VisitIgnore
    \/ NextAst
    \/ Publish

Spec == Init /\ [][Next]_vars

InitDClass == AnalyzerIdle /\ DClassInit /\ TypeInit /\ LoggerIdle

NextDClass ==
    \/ DCNew
    \/ DCSetParent
    \/ DCGetName
    \/ DCGetClassId
    \/ DCGetNumParents
    \/ DCGetParent
    \/ DCHasConstructor
    \/ DCGetConstructor

SpecDClass == InitDClass /\ [][NextDClass]_vars

InitType == AnalyzerIdle /\ DClassInit /\ TypeInit /\ LoggerIdle

NextType ==
    \/ TypeNew
    \/ TypeNewWithType
    \/ TypeSetAlias
    \/ TypeIsVariableLength
    \/ TypeGetSize
    \/ TypeGenerateHash

SpecType == InitType /\ [][NextType]_vars


InitInterval == AnalyzerIdle /\ DClassInit /\ TypeInit /\ IntervalInit

NextInterval == LoggerCreate

SpecInterval == InitInterval /\ [][NextInterval]_vars

InitLogger == AnalyzerIdle /\ DClassInit /\ TypeInit /\ LoggerInit

NextLogger ==
    \/ LoggerCreate
    \/ MainOpenLog
    \/ MainLogOpened
    \/ MainRecv
    \/ RotateOpenLog
    \/ RotateLogCycled
    \/ MainProcess
    \/ Tick

SpecLogger == InitLogger /\ [][NextLogger]_vars
====
